---- MODULE Spec2Model ----
(***************************************************************************)
(* ClaimGuard AI: the claim adjudication pipeline.                         *)
(*                                                                         *)
(*   backend/app/services/decision_engine.py    ClaimDecisionEngine        *)
(*   backend/app/services/fraud_detection.py    the three analyzers and    *)
(*                                              FraudDetector              *)
(*   backend/app/services/damage_assessment.py  DamageAssessor             *)
(*   backend/app/services/claim_processor.py    process_claim              *)
(*   backend/app/routers/claims.py              submit_claim               *)
(*                                                                         *)
(* Python values of varying type are records [t, v]: t is the type tag     *)
(* ("int", "none", "str", "absent"), v the integer value when t = "int".   *)
(* Confidence (a float in the source) is counted in hundredths, so the     *)
(* threshold 0.6 is 60.  Instants are counted in ticks, TicksPerDay ticks  *)
(* to a day, so that timedelta.days (a floor) is modelled as a floor.      *)
(***************************************************************************)
EXTENDS Integers, Sequences, FiniteSets, TLC

VARIABLES claims, tasks, scheduled, run, clock, writes, inp, out, applied

vars == <<claims, tasks, scheduled, run, clock, writes, inp, out, applied>>

sysVars == <<claims, tasks, scheduled, run, clock, writes>>

unitVars == <<inp, out, applied>>

----------------------------------------------------------------------------
(* Values *)

IntV(n) == [t |-> "int", v |-> n]

NoneV == [t |-> "none", v |-> 0]

StrV == [t |-> "str", v |-> 0]

AbsentV == [t |-> "absent", v |-> 0]

IsInt(x) == x.t = "int"

Min(a, b) == IF a <= b THEN a ELSE b

Abs(a) == IF a < 0 THEN 0 - a ELSE a

TicksPerDay == 2

\* timedelta.days: the floor of the difference in days
Days(ticks) == ticks \div TicksPerDay

\* an instant (a parsed ISO string) or a string that does not parse
DateV(ticks) == [t |-> "dt", v |-> ticks]

BadDate == [t |-> "bad", v |-> 0]

\* an instant parsed from a string with a UTC offset ("...Z", "...+00:00"):
\* a timezone-aware datetime, which Python refuses to subtract from a naive one
AwareV(ticks) == [t |-> "aware", v |-> ticks]

IsDate(x) == x.t \in {"dt", "aware"}

Flag(text, n) == [text |-> text, n |-> n]

Reason(text, limit, msg) == [text |-> text, limit |-> limit, msg |-> msg]

----------------------------------------------------------------------------
(* decision_engine.py *)

HighFraudThreshold == 70

MediumFraudThreshold == 30

ConfidenceThreshold == 60

DefaultConfidence == 100

Returned(decision, amount, reason) ==
    [raised |-> FALSE, decision |-> decision, approved_amount |-> amount,
     reason |-> reason]

Raised(msg) ==
    [raised |-> TRUE, decision |-> "none", approved_amount |-> NoneV,
     reason |-> Reason("", 0, msg)]

\* damage_assessment.get("confidence", 1.0)
GetConfidence(damage) ==
    IF damage.confidence.t = "absent" THEN IntV(DefaultConfidence)
    ELSE damage.confidence

\* make_decision with the medium-fraud rule tested before the high-fraud rule
MakeDecision_MediumFirst(damage, fraud, policy_limit) ==
    IF fraud.fraud_score > MediumFraudThreshold
      THEN Returned("under_review", NoneV,
                    Reason("Additional verification required", 0, ""))
    ELSE IF ~IsInt(damage.estimated_cost_ngn)
      THEN Raised("TypeError: estimated_cost > policy_limit")
    ELSE IF damage.estimated_cost_ngn.v > policy_limit
      THEN Returned("under_review", NoneV,
                    Reason("Claim exceeds policy limit", policy_limit, ""))
    ELSE Returned("approved", damage.estimated_cost_ngn,
                  Reason("Claim meets all approval criteria", 0, ""))

\* make_decision with the policy-limit rule tested before the fraud rules
MakeDecision_LimitFirst(damage, fraud, policy_limit) ==
    IF IsInt(damage.estimated_cost_ngn)
       /\ damage.estimated_cost_ngn.v > policy_limit
      THEN Returned("under_review", NoneV,
                    Reason("Claim exceeds policy limit", policy_limit, ""))
    ELSE IF fraud.fraud_score > HighFraudThreshold
      THEN Returned("rejected", NoneV,
                    Reason("High fraud indicators detected", 0, ""))
    ELSE IF fraud.fraud_score > MediumFraudThreshold
      THEN Returned("under_review", NoneV,
                    Reason("Additional verification required", 0, ""))
    ELSE IF ~IsInt(GetConfidence(damage))
      THEN Raised("TypeError: confidence < 0.6")
    ELSE IF GetConfidence(damage).v < ConfidenceThreshold
      THEN Returned("under_review", NoneV,
                    Reason("Image quality requires manual review", 0, ""))
    ELSE Returned("approved", damage.estimated_cost_ngn,
                  Reason("Claim meets all approval criteria", 0, ""))

\* make_decision with the confidence rule testing <= 0.6
MakeDecision_ConfidenceInclusive(damage, fraud, policy_limit) ==
    IF fraud.fraud_score > HighFraudThreshold
      THEN Returned("rejected", NoneV,
                    Reason("High fraud indicators detected", 0, ""))
    ELSE IF fraud.fraud_score > MediumFraudThreshold
      THEN Returned("under_review", NoneV,
                    Reason("Additional verification required", 0, ""))
    ELSE IF ~IsInt(damage.estimated_cost_ngn)
      THEN Raised("TypeError: estimated_cost > policy_limit")
    ELSE IF damage.estimated_cost_ngn.v > policy_limit
      THEN Returned("under_review", NoneV,
                    Reason("Claim exceeds policy limit", policy_limit, ""))
    ELSE IF ~IsInt(GetConfidence(damage))
      THEN Raised("TypeError: confidence < 0.6")
    ELSE IF GetConfidence(damage).v <= ConfidenceThreshold
      THEN Returned("under_review", NoneV,
                    Reason("Image quality requires manual review", 0, ""))
    ELSE Returned("approved", damage.estimated_cost_ngn,
                  Reason("Claim meets all approval criteria", 0, ""))

\* ClaimDecisionEngine.make_decision: the rules in order, first match wins.
\* A comparison of a non-number raises TypeError.
MakeDecision(damage, fraud, policy_limit) ==
    LET estimated_cost == damage.estimated_cost_ngn
        fraud_score == fraud.fraud_score
        confidence == GetConfidence(damage)
    IN  IF fraud_score > HighFraudThreshold
          THEN Returned("rejected", NoneV,
                        Reason("High fraud indicators detected", 0, ""))
        ELSE IF fraud_score > MediumFraudThreshold
          THEN Returned("under_review", NoneV,
                        Reason("Additional verification required", 0, ""))
        ELSE IF ~IsInt(estimated_cost)
          THEN Raised("TypeError: estimated_cost > policy_limit")
        ELSE IF estimated_cost.v > policy_limit
          THEN Returned("under_review", NoneV,
                        Reason("Claim exceeds policy limit", policy_limit, ""))
        ELSE IF ~IsInt(confidence)
          THEN Raised("TypeError: confidence < 0.6")
        ELSE IF confidence.v < ConfidenceThreshold
          THEN Returned("under_review", NoneV,
                        Reason("Image quality requires manual review", 0, ""))
        ELSE Returned("approved", estimated_cost,
                      Reason("Claim meets all approval criteria", 0, ""))

----------------------------------------------------------------------------
(* fraud_detection.py *)

\* The EXIF tags of an image.  datetime is NoneV (no DateTimeOriginal tag),
\* BadDate (a tag that strptime rejects) or an instant; software is "none",
\* "editor" (the tag names photoshop, gimp, affinity or lightroom) or "other".
NoMetadata == [has_metadata |-> FALSE, datetime_original |-> NoneV,
               software |-> "none"]

\* MetadataAnalyzer.extract_exif: an image that cannot be opened, or has no
\* EXIF block, yields has_metadata = False and no tag.
ExtractExif(image) ==
    IF image.kind = "corrupt" THEN NoMetadata
    ELSE [has_metadata |-> image.tagged,
          datetime_original |-> IF image.tagged THEN image.datetime ELSE NoneV,
          software |-> IF image.tagged THEN image.software ELSE "none"]

\* MetadataAnalyzer.check_metadata_fraud
CheckMetadataFraud(metadata, claimed_date) ==
    LET missing == ~metadata.has_metadata
        photo == metadata.datetime_original
        parsed == photo.t = "dt" /\ claimed_date.t = "dt"
        diff_days == IF parsed THEN Abs(Days(photo.v - claimed_date.v)) ELSE 0
        mismatch == parsed /\ diff_days > 7
        edited == metadata.software = "editor"
        score == (IF missing THEN 15 ELSE 0) + (IF mismatch THEN 10 ELSE 0)
                 + (IF edited THEN 5 ELSE 0)
        flags == (IF missing THEN <<Flag("Metadata stripped or missing", 0)>>
                  ELSE <<>>)
                 \o (IF mismatch
                     THEN <<Flag("Photo taken N days from claim date", diff_days)>>
                     ELSE <<>>)
                 \o (IF edited THEN <<Flag("Image edited with photo software", 0)>>
                     ELSE <<>>)
    IN  [is_suspicious |-> score > 10, flags |-> flags, score |-> Min(score, 20)]

HistoryWindowDays == 90

\* Rows of the claims table older than the service run observed here: one
\* claim of policy 1, created at day 0.  No run touches them; the history
\* query counts them like any other row.
EarlierClaims == {[policy_number |-> 1, created_at |-> 0]}

\* the history query counting only rows created before the query's utcnow()
RecentClaims_BeforeNow(rows, policy_number, now) ==
    Cardinality({c \in DOMAIN rows :
                    /\ rows[c].exists
                    /\ rows[c].policy_number = policy_number
                    /\ rows[c].created_at >= now - HistoryWindowDays
                    /\ rows[c].created_at < now})
    + Cardinality({h \in EarlierClaims :
                    /\ h.policy_number = policy_number
                    /\ h.created_at >= now - HistoryWindowDays
                    /\ h.created_at < now})

\* The rows the history query of check_claim_history counts: the claims of
\* the policy created at or after utcnow() - 90 days.
RecentClaims(rows, policy_number, now) ==
    Cardinality({c \in DOMAIN rows :
                    /\ rows[c].exists
                    /\ rows[c].policy_number = policy_number
                    /\ rows[c].created_at >= now - HistoryWindowDays})
    + Cardinality({h \in EarlierClaims :
                    /\ h.policy_number = policy_number
                    /\ h.created_at >= now - HistoryWindowDays})

\* check_claim_history flagging from two claims on
CheckClaimHistory_FromTwo(recent_claims) ==
    [is_suspicious |-> recent_claims >= 2,
     flags |-> IF recent_claims >= 2
               THEN <<Flag("N claims in last 90 days", recent_claims)>>
               ELSE <<>>,
     score |-> IF recent_claims >= 2 THEN Min(25, recent_claims * 8) ELSE 0,
     recent_claims_count |-> recent_claims]

\* FrequencyAnalyzer.check_claim_history, from the count the query returned
CheckClaimHistory(recent_claims) ==
    [is_suspicious |-> recent_claims > 2,
     flags |-> IF recent_claims > 2
               THEN <<Flag("N claims in last 90 days", recent_claims)>>
               ELSE <<>>,
     score |-> IF recent_claims > 2 THEN Min(25, recent_claims * 8) ELSE 0,
     recent_claims_count |-> recent_claims]

\* the result of an analyzer that returned nothing: the call raised
TimingRaised ==
    [raised |-> TRUE, is_suspicious |-> FALSE, flags |-> <<>>, score |-> 0]

\* the silent fallback of check_suspicious_timing for unparseable dates
TimingFallback ==
    [raised |-> FALSE, is_suspicious |-> FALSE, flags |-> <<>>, score |-> 0]

\* check_suspicious_timing testing fewer than 7 days before the policy end
CheckSuspiciousTiming_EndExclusive(incident_date, policy_start_date, policy_end_date) ==
    IF ~IsDate(incident_date) \/ ~IsDate(policy_start_date)
       \/ ~IsDate(policy_end_date)
      THEN TimingFallback
    ELSE IF incident_date.t # policy_start_date.t
            \/ policy_end_date.t # incident_date.t
      THEN TimingRaised
    ELSE
      LET days_after_start == Days(incident_date.v - policy_start_date.v)
          days_before_end == Days(policy_end_date.v - incident_date.v)
          near_start == 0 <= days_after_start /\ days_after_start <= 7
          near_end == 0 <= days_before_end /\ days_before_end < 7
          score == (IF near_start THEN 10 ELSE 0) + (IF near_end THEN 15 ELSE 0)
          flags == (IF near_start
                    THEN <<Flag("Claim filed N days after policy start",
                                days_after_start)>>
                    ELSE <<>>)
                   \o (IF near_end
                       THEN <<Flag("Claim filed N days before policy expiry",
                                   days_before_end)>>
                       ELSE <<>>)
      IN  [raised |-> FALSE, is_suspicious |-> score > 0, flags |-> flags,
           score |-> score]

\* TimingAnalyzer.check_suspicious_timing.  The three parses are inside the
\* try; the two subtractions are not, and a subtraction of a naive and an
\* aware datetime raises TypeError.
CheckSuspiciousTiming(incident_date, policy_start_date, policy_end_date) ==
    IF ~IsDate(incident_date) \/ ~IsDate(policy_start_date)
       \/ ~IsDate(policy_end_date)
      THEN TimingFallback
    ELSE IF incident_date.t # policy_start_date.t
            \/ policy_end_date.t # incident_date.t
      THEN TimingRaised
    ELSE
      LET days_after_start == Days(incident_date.v - policy_start_date.v)
          days_before_end == Days(policy_end_date.v - incident_date.v)
          near_start == 0 <= days_after_start /\ days_after_start <= 7
          near_end == 0 <= days_before_end /\ days_before_end <= 7
          score == (IF near_start THEN 10 ELSE 0) + (IF near_end THEN 15 ELSE 0)
          flags == (IF near_start
                    THEN <<Flag("Claim filed N days after policy start",
                                days_after_start)>>
                    ELSE <<>>)
                   \o (IF near_end
                       THEN <<Flag("Claim filed N days before policy expiry",
                                   days_before_end)>>
                       ELSE <<>>)
      IN  [raised |-> FALSE, is_suspicious |-> score > 0, flags |-> flags,
           score |-> score]

\* the risk level with the low band ending below 30
RiskLevel_LowBelow30(total_score) ==
    IF total_score < 30 THEN "low"
    ELSE IF total_score <= 70 THEN "medium"
    ELSE "high"

\* the risk level of calculate_fraud_score, from the uncapped total
RiskLevel(total_score) ==
    IF total_score <= 30 THEN "low"
    ELSE IF total_score <= 70 THEN "medium"
    ELSE "high"

\* the sum without the timing score
TotalScore_NoTiming(metadata_result, frequency_result, timing_result) ==
    metadata_result.score + frequency_result.score

\* the sum with the timing score added twice
TotalScore_TimingTwice(metadata_result, frequency_result, timing_result) ==
    metadata_result.score + frequency_result.score + 2 * timing_result.score

\* the sum FraudDetector.calculate_fraud_score accumulates in total_score
TotalScore(metadata_result, frequency_result, timing_result) ==
    metadata_result.score + frequency_result.score + timing_result.score

\* FraudDetector.calculate_fraud_score, given the count its history query
\* returned
CalculateFraudScore(image, incident_date, recent_claims, policy_start_date, policy_end_date) ==
    LET metadata_result == CheckMetadataFraud(ExtractExif(image), incident_date)
        frequency_result == CheckClaimHistory(recent_claims)
        timing_result == CheckSuspiciousTiming(incident_date, policy_start_date,
                                               policy_end_date)
        total_score == TotalScore(metadata_result, frequency_result,
                                  timing_result)
    IN  [raised |-> timing_result.raised,
         fraud_score |-> Min(total_score, 100),
         risk_level |-> RiskLevel(total_score),
         flags |-> metadata_result.flags \o frequency_result.flags
                   \o timing_result.flags,
         details |-> [metadata |-> metadata_result,
                      frequency |-> frequency_result,
                      timing |-> timing_result]]

----------------------------------------------------------------------------
(* damage_assessment.py *)

\* The reply text of the vision service is a sequence of tokens: whitespace,
\* the fence markers "```json" and "```", and documents.  A document is
\* prose (not JSON), a JSON scalar (number, true, false, null), a JSON array
\* or string ("container") or a JSON object; has is the set of required names
\* the container holds or the object has as keys.
Required == {"damage_type", "severity", "estimated_cost_ngn"}

Token(k, len, has, cost, conf) ==
    [k |-> k, len |-> len, has |-> has, cost |-> cost, conf |-> conf]

Ws == Token("ws", 1, {}, NoneV, NoneV)

FenceJson == Token("fence_json", 7, {}, NoneV, NoneV)

Fence == Token("fence", 3, {}, NoneV, NoneV)

RECURSIVE TextLen(_)
TextLen(text) ==
    IF text = <<>> THEN 0 ELSE Head(text).len + TextLen(Tail(text))

RECURSIVE LStrip(_)
LStrip(text) ==
    IF text # <<>> /\ Head(text).k = "ws" THEN LStrip(Tail(text)) ELSE text

RECURSIVE RStrip(_)
RStrip(text) ==
    IF text # <<>> /\ text[Len(text)].k = "ws"
      THEN RStrip(SubSeq(text, 1, Len(text) - 1))
    ELSE text

\* str.strip()
Strip(text) == RStrip(LStrip(text))

\* the three marker removals of _parse_response, in the order of the code
Unfence(text) ==
    LET t0 == Strip(text)
        t1 == IF t0 # <<>> /\ Head(t0).k = "fence_json" THEN Tail(t0) ELSE t0
        t2 == IF t1 # <<>> /\ Head(t1).k = "fence" THEN Tail(t1) ELSE t1
        t3 == IF t2 # <<>> /\ t2[Len(t2)].k = "fence"
                THEN SubSeq(t2, 1, Len(t2) - 1) ELSE t2
    IN  t3

\* json.loads accepts exactly one JSON document
IsJson(text) ==
    Len(text) = 1 /\ text[1].k \in {"scalar", "container", "object"}

Damage(shape, damage_type, severity, cost, conf, error, reasoning, raw_len) ==
    [shape |-> shape, damage_type |-> damage_type, severity |-> severity,
     estimated_cost_ngn |-> cost, confidence |-> conf, error |-> error,
     reasoning |-> reasoning, raw_len |-> raw_len]

FallbackCost == 200000

\* the parse fallback with a confidence of 0.6
ParseFallback_Confidence60(text) ==
    Damage("record", "Unable to determine", "moderate", IntV(FallbackCost),
           IntV(60), FALSE, "Error parsing response", Min(500, TextLen(text)))

\* the fallback of _parse_response: confidence 0.5 and text[:500]
ParseFallback(text) ==
    Damage("record", "Unable to determine", "moderate", IntV(FallbackCost),
           IntV(50), FALSE, "Error parsing response", Min(500, TextLen(text)))

\* the fallback of analyze_damage: confidence 0.3 and "error": True
CallFallback ==
    Damage("record", "Unable to determine", "moderate", IntV(FallbackCost),
           IntV(30), TRUE, "Error during analysis", -1)

\* DamageAssessor._parse_response.  `"damage_type" in data` raises TypeError
\* on a JSON scalar, which the except clause (JSONDecodeError,
\* AssertionError) does not catch; an array or string holding the three
\* names passes the assertions and is returned as it is.
ParseResponse(reply_text) ==
    LET text == Unfence(reply_text)
        body == Strip(text)
    IN  IF ~IsJson(body)
          THEN [raised |-> FALSE, data |-> ParseFallback(text)]
        ELSE IF body[1].k = "scalar"
          THEN [raised |-> TRUE, data |-> ParseFallback(text)]
        ELSE IF ~(Required \subseteq body[1].has)
          THEN [raised |-> FALSE, data |-> ParseFallback(text)]
        ELSE IF body[1].k = "container"
          THEN [raised |-> FALSE,
                data |-> Damage("nonrecord", "reported", "reported", NoneV,
                                AbsentV, FALSE, "reported", -1)]
        ELSE [raised |-> FALSE,
              data |-> Damage("record", "reported", "reported", body[1].cost,
                              body[1].conf, FALSE, "reported", -1)]

\* DamageAssessor.analyze_damage: reply.call = "fail" when Image.open,
\* generate_content or response.text raises
AnalyzeDamage(reply) ==
    IF reply.call = "fail" THEN CallFallback
    ELSE LET parsed == ParseResponse(reply.text)
         IN  IF parsed.raised THEN CallFallback ELSE parsed.data

----------------------------------------------------------------------------
(* models/claim.py, models/customer.py: the persisted records *)

MaxClaims == 2

ClaimIds == 1 .. MaxClaims

NoDamage == Damage("none", "", "", NoneV, AbsentV, FALSE, "", -1)

NoReason == Reason("", 0, "")

\* a row of the claims table; exists = FALSE is an id with no row
Row(exists, customer_id, incident_date, images, created_at) ==
    [exists |-> exists, customer_id |-> customer_id,
     policy_number |-> customer_id, incident_date |-> incident_date,
     images |-> images, created_at |-> created_at,
     damage_assessment |-> NoDamage, fraud_score |-> 0, fraud_flags |-> <<>>,
     status |-> "pending", estimated_amount |-> IntV(0),
     approved_amount |-> NoneV, decision_reason |-> NoReason,
     decision_timestamp |-> NoneV]

NoRow == Row(FALSE, 0, 0, 0, 0)

\* The customers table is read only.  Policy 1 runs for ten days, policy 2
\* for a year; policy dates are calendar dates (Column(Date)), in days.
PolicyNumbers == {1, 2}

Customer(p) ==
    IF p = 1
      THEN [policy_start_date |-> 0, policy_end_date |-> 10,
            policy_limit |-> 500000]
    ELSE [policy_start_date |-> 0, policy_end_date |-> 365,
          policy_limit |-> 250000]

\* date.isoformat() parsed back by datetime.fromisoformat: midnight
DateOf(day) == DateV(day * TicksPerDay)

\* the fields process_claim assigns
ResultFields ==
    {"damage_assessment", "estimated_amount", "fraud_score", "fraud_flags",
     "status", "approved_amount", "decision_reason", "decision_timestamp"}

\* The UPDATE a successful commit sends: the attributes assigned since the
\* last flush (dirty), taken from the in-memory object.
Persist(row, obj, dirty) ==
    [row EXCEPT
       !.damage_assessment =
           IF "damage_assessment" \in dirty THEN obj.damage_assessment ELSE @,
       !.estimated_amount =
           IF "estimated_amount" \in dirty THEN obj.estimated_amount ELSE @,
       !.fraud_score = IF "fraud_score" \in dirty THEN obj.fraud_score ELSE @,
       !.fraud_flags = IF "fraud_flags" \in dirty THEN obj.fraud_flags ELSE @,
       !.status = IF "status" \in dirty THEN obj.status ELSE @,
       !.approved_amount =
           IF "approved_amount" \in dirty THEN obj.approved_amount ELSE @,
       !.decision_reason =
           IF "decision_reason" \in dirty THEN obj.decision_reason ELSE @,
       !.decision_timestamp =
           IF "decision_timestamp" \in dirty THEN obj.decision_timestamp ELSE @]

----------------------------------------------------------------------------
(* The inputs of a pipeline run *)

\* image bytes: kind "corrupt" cannot be opened; tagged = FALSE has no EXIF
\* block
Image(kind, tagged, datetime, software) ==
    [kind |-> kind, tagged |-> tagged, datetime |-> datetime,
     software |-> software]

NoImage == Image("none", FALSE, NoneV, "none")

\* the image a run downloads: one without EXIF block
PipelineImages == {Image("image", FALSE, NoneV, "none")}

Object(cost, conf) == Token("object", 40, Required, cost, conf)

Reply(call, text) == [call |-> call, text |-> text]

\* replies of the vision service
PipelineReplies ==
    {Reply("fail", <<>>),
     Reply("ok", <<Token("container", 40, Required, NoneV, NoneV)>>),
     Reply("ok", <<FenceJson, Ws, Object(IntV(50000), IntV(90)), Ws, Fence>>),
     Reply("ok", <<Object(IntV(50000), StrV)>>),
     Reply("ok", <<Object(NoneV, IntV(90))>>)}

\* the incident instant a submitter gives, in ticks
Incidents == {10}

\* pipeline runs in progress at once
MaxActive == 1

Active == {c \in ClaimIds : run[c].pc \notin {"idle", "done"}}

----------------------------------------------------------------------------
(* claim_processor.py: process_claim, one action per await point *)

NoFraud ==
    [raised |-> FALSE, fraud_score |-> 0, risk_level |-> "low",
     flags |-> <<>>,
     details |-> [metadata |-> [is_suspicious |-> FALSE, flags |-> <<>>,
                                score |-> 0],
                  frequency |-> CheckClaimHistory(0),
                  timing |-> TimingFallback]]

NoDecision == Returned("none", NoneV, NoReason)

\* The frame of one call of process_claim: pc is the await point reached,
\* obj the claim object of the session, dirty its attributes assigned since
\* the last flush.  loaded, began, exc and outcome record the course of the
\* run: the claim was bound, the first image was downloaded, the message of
\* the exception caught, and how the call ended.  history_at_start records
\* what the history query would have counted when the call began; it is
\* kept until the query has run or the call has left the straight path.
IdleRun ==
    [pc |-> "idle", loaded |-> FALSE, obj |-> NoRow, dirty |-> {},
     customer |-> 0, image |-> NoImage, damage_result |-> NoDamage,
     fraud_result |-> NoFraud, decision |-> NoDecision, exc |-> "",
     began |-> FALSE, outcome |-> "none", history_at_start |-> 0]

\* the call returns: its locals are gone
Finish(r, outcome) ==
    [IdleRun EXCEPT !.pc = "done", !.loaded = r.loaded, !.exc = r.exc,
                    !.began = r.began, !.outcome = outcome]

\* an exception reaches `except Exception as e`
Catch(r, msg) ==
    [r EXCEPT !.pc = "handler", !.exc = msg, !.history_at_start = 0]

\* the handler putting the claim back to PENDING
ErrorStatus_Pending == "pending"

\* ClaimStatus.UNDER_REVIEW, the status the handler assigns
ErrorStatus == "under_review"

ErrorReason(msg) == Reason("Processing error", 0, msg)

\* the two assignments of the handler
ErrorAssign(obj, msg) ==
    [obj EXCEPT !.status = ErrorStatus, !.decision_reason = ErrorReason(msg)]

\* BackgroundTasks.add_task(process_claim, claim.id)
AddTask(q, c) == [q EXCEPT ![c] = @ + 1]

\* the background task starts
StartTask(c) ==
    /\ tasks[c] > 0
    /\ run[c].pc = "idle"
    /\ Cardinality(Active) < MaxActive
    /\ tasks' = [tasks EXCEPT ![c] = @ - 1]
    /\ run' = [run EXCEPT ![c].pc = "load_claim",
                          ![c].history_at_start =
                              RecentClaims(claims, claims[c].policy_number,
                                           clock)]
    /\ UNCHANGED <<claims, scheduled, clock, writes, unitVars>>

\* process_claim(claim_id) called for any id
CallProcessClaim(c) ==
    /\ \A d \in ClaimIds : run[d].pc = "idle"
    /\ run' = [run EXCEPT ![c].pc = "load_claim",
                          ![c].history_at_start =
                              RecentClaims(claims, claims[c].policy_number,
                                           clock)]
    /\ UNCHANGED <<claims, tasks, scheduled, clock, writes, unitVars>>

\* lines 33-41: select the claim; no row: return
LoadClaim(c) ==
    /\ run[c].pc = "load_claim"
    /\ \/ run' = [run EXCEPT ![c] = Catch(@, "claim query failed")]
       \/ run' = [run EXCEPT ![c] =
                    IF ~claims[c].exists THEN Finish(@, "aborted")
                    ELSE [@ EXCEPT !.pc = "load_customer", !.loaded = TRUE,
                                   !.obj = claims[c]]]
    /\ UNCHANGED <<claims, tasks, scheduled, clock, writes, unitVars>>

\* lines 43-51: select the customer; no row: return
LoadCustomer(c) ==
    /\ run[c].pc = "load_customer"
    /\ \/ run' = [run EXCEPT ![c] = Catch(@, "customer query failed")]
       \/ run' = [run EXCEPT ![c] =
                    IF run[c].obj.customer_id \notin PolicyNumbers
                      THEN Finish(@, "aborted")
                    ELSE [@ EXCEPT !.pc = "download",
                                   !.customer = run[c].obj.customer_id]]
    /\ UNCHANGED <<claims, tasks, scheduled, clock, writes, unitVars>>

\* the download without the test for an empty image list: images[0] raises
Download_NoImageCheck(c) ==
    /\ run[c].pc = "download"
    /\ IF run[c].obj.images = 0
         THEN run' = [run EXCEPT ![c] = Catch(@, "IndexError")]
       ELSE \/ run' = [run EXCEPT ![c] = Catch(@, "download failed")]
            \/ \E image \in PipelineImages :
                 run' = [run EXCEPT ![c].pc = "assess", ![c].image = image,
                                    ![c].began = TRUE]
    /\ UNCHANGED <<claims, tasks, scheduled, clock, writes, unitVars>>

\* lines 55-60: download the first image; no image: return
Download(c) ==
    /\ run[c].pc = "download"
    /\ IF run[c].obj.images = 0
         THEN run' = [run EXCEPT ![c] = Finish(@, "aborted")]
       ELSE \/ run' = [run EXCEPT ![c] = Catch(@, "download failed")]
            \/ \E image \in PipelineImages :
                 run' = [run EXCEPT ![c].pc = "assess", ![c].image = image,
                                    ![c].began = TRUE]
    /\ UNCHANGED <<claims, tasks, scheduled, clock, writes, unitVars>>

\* lines 62-71: analyze_damage, then the two assignments; .get raises
\* AttributeError on a result that is not a dict.  generate_content
\* (damage_assessment.py:55) is called without a timeout: a service that
\* never answers leaves the call waiting.
Assess(c) ==
    /\ run[c].pc = "assess"
    /\ \/ run' = [run EXCEPT ![c].pc = "awaiting_vision",
                             ![c].history_at_start = 0]
       \/ \E reply \in PipelineReplies :
            LET damage_result == AnalyzeDamage(reply)
                r1 == [run[c] EXCEPT
                         !.damage_result = damage_result,
                         !.obj.damage_assessment = damage_result,
                         !.dirty = @ \cup {"damage_assessment"}]
            IN  run' = [run EXCEPT ![c] =
                          IF damage_result.shape # "record"
                            THEN Catch(r1, "AttributeError: get")
                          ELSE [r1 EXCEPT
                                  !.pc = "fraud",
                                  !.obj.estimated_amount =
                                      damage_result.estimated_cost_ngn,
                                  !.dirty = @ \cup {"estimated_amount"}]]
    /\ UNCHANGED <<claims, tasks, scheduled, clock, writes, unitVars>>

\* lines 73-90: calculate_fraud_score; its history query reads the table as
\* it is when the query runs, and may fail; db.execute
\* (fraud_detection.py:123) has no timeout either.  An exception of an
\* analyzer is not caught before the handler.
FraudScore(c) ==
    /\ run[c].pc = "fraud"
    /\ \/ run' = [run EXCEPT ![c] = Catch(@, "history query failed")]
       \/ run' = [run EXCEPT ![c].pc = "awaiting_history",
                             ![c].history_at_start = 0]
       \/ LET r == run[c]
              fraud_result ==
                  CalculateFraudScore(
                      r.image, DateV(r.obj.incident_date),
                      RecentClaims(claims, r.obj.policy_number, clock),
                      DateOf(Customer(r.customer).policy_start_date),
                      DateOf(Customer(r.customer).policy_end_date))
          IN  run' = [run EXCEPT ![c] =
                        IF fraud_result.raised
                          THEN Catch(@, "TypeError: naive and aware")
                        ELSE
                        [@ EXCEPT !.pc = "decide",
                                  !.history_at_start = 0,
                                  !.fraud_result = fraud_result,
                                  !.obj.fraud_score = fraud_result.fraud_score,
                                  !.obj.fraud_flags = fraud_result.flags,
                                  !.dirty = @ \cup {"fraud_score",
                                                    "fraud_flags"}]]
    /\ UNCHANGED <<claims, tasks, scheduled, clock, writes, unitVars>>

\* the assignments without the decision timestamp
DecisionFields_NoTimestamp == {"status", "approved_amount", "decision_reason"}

\* the attributes assigned from the decision (lines 102-105)
DecisionFields ==
    {"status", "approved_amount", "decision_reason", "decision_timestamp"}

\* lines 92-105: make_decision, then the four assignments
Decide(c) ==
    /\ run[c].pc = "decide"
    /\ LET r == run[c]
           decision == MakeDecision(r.damage_result, r.fraud_result,
                                    Customer(r.customer).policy_limit)
       IN  run' = [run EXCEPT ![c] =
                     IF decision.raised THEN Catch(@, decision.reason.msg)
                     ELSE [@ EXCEPT
                             !.pc = "commit",
                             !.decision = decision,
                             !.obj.status = decision.decision,
                             !.obj.approved_amount = decision.approved_amount,
                             !.obj.decision_reason = decision.reason,
                             !.obj.decision_timestamp = IntV(clock),
                             !.dirty = @ \cup DecisionFields]]
    /\ UNCHANGED <<claims, tasks, scheduled, clock, writes, unitVars>>

\* the commit whose failure leaves the pending attribute changes in the
\* session
Commit_KeepsPending(c) ==
    /\ run[c].pc = "commit"
    /\ \/ /\ claims' = [claims EXCEPT ![c] =
                          Persist(@, run[c].obj, run[c].dirty)]
          /\ writes' = [writes EXCEPT ![c] = Append(@, run[c].dirty)]
          /\ run' = [run EXCEPT ![c].pc = "report", ![c].dirty = {}]
       \/ /\ run' = [run EXCEPT ![c] = Catch(@, "commit failed")]
          /\ UNCHANGED <<claims, writes>>
    /\ UNCHANGED <<tasks, scheduled, clock, unitVars>>

\* line 107: db.commit().  A commit that fails rolls the unit of work back:
\* the pending attribute changes are discarded.
Commit(c) ==
    /\ run[c].pc = "commit"
    /\ \/ /\ claims' = [claims EXCEPT ![c] =
                          Persist(@, run[c].obj, run[c].dirty)]
          /\ writes' = [writes EXCEPT ![c] = Append(@, run[c].dirty)]
          /\ run' = [run EXCEPT ![c].pc = "report", ![c].dirty = {}]
       \/ /\ run' = [run EXCEPT ![c] =
                       Catch([@ EXCEPT !.obj = claims[c], !.dirty = {}],
                             "commit failed")]
          /\ UNCHANGED <<claims, writes>>
    /\ UNCHANGED <<tasks, scheduled, clock, unitVars>>

\* lines 109-113: the prints; the format "," raises on None and on a string
Report(c) ==
    /\ run[c].pc = "report"
    /\ run' = [run EXCEPT ![c] =
                 IF ~IsInt(run[c].obj.estimated_amount)
                   THEN Catch(@, "format error")
                 ELSE Finish(@, "ok")]
    /\ UNCHANGED <<claims, tasks, scheduled, clock, writes, unitVars>>

\* the handler without its inner try: its own failure leaves the call
ErrorUpdate_Propagates(c) ==
    /\ run[c].pc = "handler"
    /\ IF ~run[c].loaded
         THEN /\ run' = [run EXCEPT ![c] = Finish(@, "raised")]
              /\ UNCHANGED <<claims, writes>>
       ELSE LET obj == ErrorAssign(run[c].obj, run[c].exc)
                dirty == run[c].dirty \cup {"status", "decision_reason"}
            IN  \/ /\ run' = [run EXCEPT ![c] = Finish(@, "error")]
                   /\ claims' = [claims EXCEPT ![c] = Persist(@, obj, dirty)]
                   /\ writes' = [writes EXCEPT ![c] = Append(@, dirty)]
                \/ /\ run' = [run EXCEPT ![c] = Finish(@, "raised")]
                   /\ UNCHANGED <<claims, writes>>
    /\ UNCHANGED <<tasks, scheduled, clock, unitVars>>

\* lines 115-123: the handler.  With no claim bound the assignment raises
\* and is swallowed; so is a failing commit.
ErrorUpdate(c) ==
    /\ run[c].pc = "handler"
    /\ IF ~run[c].loaded
         THEN /\ run' = [run EXCEPT ![c] = Finish(@, "error")]
              /\ UNCHANGED <<claims, writes>>
       ELSE LET obj == ErrorAssign(run[c].obj, run[c].exc)
                dirty == run[c].dirty \cup {"status", "decision_reason"}
            IN  /\ run' = [run EXCEPT ![c] = Finish(@, "error")]
                /\ \/ /\ claims' = [claims EXCEPT ![c] =
                                      Persist(@, obj, dirty)]
                      /\ writes' = [writes EXCEPT ![c] = Append(@, dirty)]
                   \/ UNCHANGED <<claims, writes>>
    /\ UNCHANGED <<tasks, scheduled, clock, unitVars>>

Step(c) ==
    \/ LoadClaim(c)
    \/ LoadCustomer(c)
    \/ Download(c)
    \/ Assess(c)
    \/ FraudScore(c)
    \/ Decide(c)
    \/ Commit(c)
    \/ Report(c)
    \/ ErrorUpdate(c)

----------------------------------------------------------------------------
(* routers/claims.py: submit_claim *)

FreeIds == {c \in ClaimIds : ~claims[c].exists}

\* the id of the new row (uuid4): an id not in use
NewId == CHOOSE c \in FreeIds : \A d \in FreeIds : c <= d

\* lines 40-83.  A request with no image or more than four, or for an
\* unknown policy, is refused; the row is committed with status PENDING; a
\* failing db.refresh leaves the row without a task.
SubmitClaim ==
    \E policy_number \in PolicyNumbers \cup {0}, incident \in Incidents,
       images \in 0 .. 1 :
      /\ images >= 1 /\ images <= 4
      /\ policy_number \in PolicyNumbers
      /\ FreeIds # {}
      /\ claims' = [claims EXCEPT ![NewId] =
                      Row(TRUE, policy_number, incident, images, clock)]
      /\ \/ /\ tasks' = AddTask(tasks, NewId)
            /\ scheduled' = [scheduled EXCEPT ![NewId] = @ + 1]
         \/ UNCHANGED <<tasks, scheduled>>
      /\ UNCHANGED <<run, clock, writes, unitVars>>

----------------------------------------------------------------------------
(* The service: submissions and their background tasks *)

NoUnit == [f |-> "none"]

Init ==
    /\ claims = [c \in ClaimIds |-> NoRow]
    /\ tasks = [c \in ClaimIds |-> 0]
    /\ scheduled = [c \in ClaimIds |-> 0]
    /\ run = [c \in ClaimIds |-> IdleRun]
    /\ clock = 0
    /\ writes = [c \in ClaimIds |-> <<>>]
    /\ inp = NoUnit
    /\ out = NoUnit
    /\ applied = FALSE

Next ==
    \/ SubmitClaim
    \/ \E c \in ClaimIds : StartTask(c)
    \/ \E c \in ClaimIds : Step(c)

Spec == Init /\ [][Next]_vars

----------------------------------------------------------------------------
(* process_claim called once, for any id, on any content of the tables *)

\* rows of the claims table: none, a claim of policy 1, a claim of policy 2,
\* a claim whose customer row is gone, a claim without images
StoredRows ==
    {NoRow, Row(TRUE, 1, 10, 1, 0), Row(TRUE, 2, 10, 1, 0),
     Row(TRUE, 0, 10, 1, 0), Row(TRUE, 1, 10, 0, 0)}

\* utcnow() at the call, in days: the rows are 0 or 100 days old
Clocks == {0, 100}

InitProcess ==
    /\ claims \in [ClaimIds -> StoredRows]
    /\ tasks = [c \in ClaimIds |-> 0]
    /\ scheduled = [c \in ClaimIds |-> 0]
    /\ run = [c \in ClaimIds |-> IdleRun]
    /\ clock \in Clocks
    /\ writes = [c \in ClaimIds |-> <<>>]
    /\ inp = NoUnit
    /\ out = NoUnit
    /\ applied = FALSE

NextProcess ==
    \/ \E c \in ClaimIds : CallProcessClaim(c)
    \/ \E c \in ClaimIds : Step(c)

SpecProcess == InitProcess /\ [][NextProcess]_vars

----------------------------------------------------------------------------
(* The functions on their own: an input is drawn, the function is applied *)

SysIdle ==
    /\ claims = [c \in ClaimIds |-> NoRow]
    /\ tasks = [c \in ClaimIds |-> 0]
    /\ scheduled = [c \in ClaimIds |-> 0]
    /\ run = [c \in ClaimIds |-> IdleRun]
    /\ clock = 0
    /\ writes = [c \in ClaimIds |-> <<>>]

(* make_decision *)

DecisionCosts == {IntV(0), IntV(300000), IntV(600000), NoneV, StrV}

DecisionConfidences ==
    {IntV(0), IntV(59), IntV(60), IntV(90), IntV(100), AbsentV, NoneV, StrV}

DecisionScores == {0, 10, 30, 31, 50, 70, 71, 75, 100}

DecisionLimits == {0, 300000, 500000}

InitDecision ==
    /\ SysIdle
    /\ inp \in [f : {"make_decision"},
                damage : {Damage("record", "reported", "reported", cost, conf,
                                 FALSE, "reported", -1) :
                            cost \in DecisionCosts, conf \in DecisionConfidences},
                fraud : {[fraud_score |-> n, risk_level |-> RiskLevel(n),
                          flags |-> <<>>] : n \in DecisionScores},
                policy_limit : DecisionLimits]
    /\ out = NoUnit
    /\ applied = FALSE

ApplyDecision ==
    /\ ~applied
    /\ inp.f = "make_decision"
    /\ out' = MakeDecision(inp.damage, inp.fraud, inp.policy_limit)
    /\ applied' = TRUE
    /\ UNCHANGED <<inp, sysVars>>

SpecDecision == InitDecision /\ [][ApplyDecision]_vars

(* analyze_damage *)

MaxTokens == 3

ReplyTokens ==
    {Ws, FenceJson, Fence,
     Token("prose", 600, {}, NoneV, NoneV),
     Token("scalar", 2, {}, NoneV, NoneV),
     Token("container", 40, Required, NoneV, NoneV),
     Token("container", 10, {"severity"}, NoneV, NoneV),
     Token("object", 40, Required, IntV(50000), IntV(90)),
     Token("object", 30, Required, IntV(50000), AbsentV),
     Token("object", 30, Required \ {"severity"}, IntV(50000), IntV(90)),
     Token("object", 2, {}, NoneV, AbsentV)}

ReplyTexts == UNION {[1 .. n -> ReplyTokens] : n \in 0 .. MaxTokens}

InitDamage ==
    /\ SysIdle
    /\ inp \in [f : {"analyze_damage"}, call : {"ok", "fail"},
                text : ReplyTexts]
    /\ out = NoUnit
    /\ applied = FALSE

ApplyDamage ==
    /\ ~applied
    /\ inp.f = "analyze_damage"
    /\ out' = AnalyzeDamage(Reply(inp.call, inp.text))
    /\ applied' = TRUE
    /\ UNCHANGED <<inp, sysVars>>

SpecDamage == InitDamage /\ [][ApplyDamage]_vars

(* the analyzers and calculate_fraud_score *)

MaxDays == 9

MaxCount == 5

\* instants from a day before day 0 to MaxDays + 1 days after it
Instants ==
    {DateV(t) : t \in (0 - TicksPerDay) .. ((MaxDays + 1) * TicksPerDay)}

\* instants around day 0, for the capture time of a photo
PhotoInstants ==
    {DateV(t) : t \in (0 - MaxDays * TicksPerDay) .. (MaxDays * TicksPerDay)}

EndDays == {3, 10, 30}

MetadataInputs ==
    [f : {"check_metadata_fraud"},
     metadata : [has_metadata : BOOLEAN,
                 datetime_original : PhotoInstants \cup {NoneV, BadDate},
                 software : {"none", "editor", "other"}],
     claimed_date : {DateV(0), DateV(1), AwareV(0), BadDate}]

FrequencyInputs ==
    [f : {"check_claim_history"}, recent_claims : 0 .. MaxCount]

\* instants given with a UTC offset: day 0, day 5 and day 10
AwareInstants == {AwareV(d * TicksPerDay) : d \in {0, 5, 10}}

TimingInputs ==
    [f : {"check_suspicious_timing"},
     incident_date : Instants \cup AwareInstants \cup {BadDate},
     policy_start_date : {DateOf(0), AwareV(0), BadDate},
     policy_end_date : {DateOf(d) : d \in EndDays}
                       \cup {AwareV(10 * TicksPerDay), BadDate}]

FraudImages ==
    {Image("corrupt", FALSE, NoneV, "none"),
     Image("image", FALSE, NoneV, "none"),
     Image("image", TRUE, NoneV, "other"),
     Image("image", TRUE, BadDate, "editor"),
     Image("image", TRUE, DateV(0), "none"),
     Image("image", TRUE, DateV(0), "editor")}

FraudInputs ==
    [f : {"calculate_fraud_score"},
     image : FraudImages,
     incident_date : {DateV(2 * TicksPerDay), DateV(MaxDays * TicksPerDay)},
     recent_claims : 0 .. MaxCount,
     policy_start_date : {DateOf(0)},
     policy_end_date : {DateOf(d) : d \in EndDays}]

InitFraud ==
    /\ SysIdle
    /\ inp \in MetadataInputs \cup FrequencyInputs \cup TimingInputs
               \cup FraudInputs
    /\ out = NoUnit
    /\ applied = FALSE

ApplyMetadata ==
    /\ ~applied
    /\ inp.f = "check_metadata_fraud"
    /\ out' = CheckMetadataFraud(inp.metadata, inp.claimed_date)
    /\ applied' = TRUE
    /\ UNCHANGED <<inp, sysVars>>

ApplyFrequency ==
    /\ ~applied
    /\ inp.f = "check_claim_history"
    /\ out' = CheckClaimHistory(inp.recent_claims)
    /\ applied' = TRUE
    /\ UNCHANGED <<inp, sysVars>>

ApplyTiming ==
    /\ ~applied
    /\ inp.f = "check_suspicious_timing"
    /\ out' = CheckSuspiciousTiming(inp.incident_date, inp.policy_start_date,
                                    inp.policy_end_date)
    /\ applied' = TRUE
    /\ UNCHANGED <<inp, sysVars>>

ApplyFraud ==
    /\ ~applied
    /\ inp.f = "calculate_fraud_score"
    /\ out' = CalculateFraudScore(inp.image, inp.incident_date,
                                  inp.recent_claims, inp.policy_start_date,
                                  inp.policy_end_date)
    /\ applied' = TRUE
    /\ UNCHANGED <<inp, sysVars>>

NextFraud == ApplyMetadata \/ ApplyFrequency \/ ApplyTiming \/ ApplyFraud

SpecFraud == InitFraud /\ [][NextFraud]_vars

----------------------------------------------------------------------------
(* The claims *)

Terminal == {"approved", "under_review", "rejected"}

\* C1: once the claim, its customer and the first image are loaded, every
\* run ends with the claim persisted in a status other than PENDING, and a
\* run in which damage assessment, fraud scoring, decision making or the
\* final commit failed ends with status UNDER_REVIEW and the reason
\* "Processing error: <message>".
C1_FailureEndsUnderReview ==
    \A c \in ClaimIds :
      (run[c].pc = "done" /\ run[c].began) =>
        /\ claims[c].status # "pending"
        /\ run[c].outcome = "error" =>
             /\ claims[c].status = "under_review"
             /\ claims[c].decision_reason = ErrorReason(run[c].exc)

\* C2: whenever fraud_score > 70, make_decision returns rejected with no
\* approved amount and the reason "High fraud indicators detected",
\* whatever the estimated cost, the confidence and the policy limit are.
C2_HighFraudRejected ==
    (applied /\ inp.f = "make_decision" /\ inp.fraud.fraud_score > 70) =>
      /\ ~out.raised
      /\ out.decision = "rejected"
      /\ out.approved_amount = NoneV
      /\ out.reason = Reason("High fraud indicators detected", 0, "")

\* make_decision rejected a claim of score 75, cost 0 and confidence 1.0
C2_Witness ==
    /\ applied
    /\ inp.f = "make_decision"
    /\ inp.fraud.fraud_score = 75
    /\ inp.damage.estimated_cost_ngn = IntV(0)
    /\ inp.damage.confidence = IntV(100)
    /\ out.decision = "rejected"

\* C3: for fraud_score <= 70 the first rule that matches gives the single
\* reason: "Additional verification required" when fraud_score > 30, else
\* the policy-limit reason when the cost exceeds the limit, else "Image
\* quality requires manual review" when the confidence is below 0.6; each
\* time the decision is under_review with no approved amount.
C3_FirstMatchWins ==
    (applied /\ inp.f = "make_decision" /\ inp.fraud.fraud_score <= 70) =>
      LET score == inp.fraud.fraud_score
          cost == inp.damage.estimated_cost_ngn
          conf == inp.damage.confidence
          limit == inp.policy_limit
          review(reason) ==
              /\ ~out.raised
              /\ out.decision = "under_review"
              /\ out.approved_amount = NoneV
              /\ out.reason = reason
      IN  /\ score > 30 =>
                review(Reason("Additional verification required", 0, ""))
          /\ (score <= 30 /\ IsInt(cost) /\ cost.v > limit) =>
                review(Reason("Claim exceeds policy limit", limit, ""))
          /\ (score <= 30 /\ IsInt(cost) /\ cost.v <= limit /\ IsInt(conf)
              /\ conf.v < 60) =>
                review(Reason("Image quality requires manual review", 0, ""))

\* a claim of score 50 whose cost exceeds the limit and whose confidence is
\* 0 got the medium-fraud reason
C3_Witness ==
    /\ applied
    /\ inp.f = "make_decision"
    /\ inp.fraud.fraud_score = 50
    /\ inp.damage.estimated_cost_ngn = IntV(600000)
    /\ inp.policy_limit = 500000
    /\ inp.damage.confidence = IntV(0)
    /\ out.reason.text = "Additional verification required"

\* C4: make_decision returns approved exactly when fraud_score <= 30, the
\* cost is at most the policy limit and the confidence (1.0 when the
\* assessment has none) is at least 0.6; the approved amount is present
\* exactly when the decision is approved, and is then the estimated cost
\* and at most the policy limit.
C4_ApprovedIff ==
    (applied /\ inp.f = "make_decision") =>
      LET cost == inp.damage.estimated_cost_ngn
          conf == inp.damage.confidence
          meets == /\ inp.fraud.fraud_score <= 30
                   /\ IsInt(cost) /\ cost.v <= inp.policy_limit
                   /\ \/ conf.t = "absent"
                      \/ IsInt(conf) /\ conf.v >= 60
      IN  /\ (out.decision = "approved") <=> meets
          /\ (out.approved_amount # NoneV) <=> (out.decision = "approved")
          /\ out.decision = "approved" =>
               /\ out.approved_amount = cost
               /\ out.approved_amount.v <= inp.policy_limit

\* score 10, cost 300000, limit 500000, confidence 0.9: approved for 300000
C4_Witness ==
    /\ applied
    /\ inp.f = "make_decision"
    /\ inp.fraud.fraud_score = 10
    /\ inp.damage.estimated_cost_ngn = IntV(300000)
    /\ inp.policy_limit = 500000
    /\ inp.damage.confidence = IntV(90)
    /\ out.decision = "approved"
    /\ out.approved_amount = IntV(300000)

\* the reply is one JSON object with the three required keys
ParsesAsRecord(text) ==
    LET body == Strip(Unfence(text))
    IN  /\ Len(body) = 1
        /\ body[1].k = "object"
        /\ Required \subseteq body[1].has

IsFallback(d, conf) ==
    /\ d.shape = "record"
    /\ d.damage_type = "Unable to determine"
    /\ d.severity = "moderate"
    /\ d.estimated_cost_ngn = IntV(200000)
    /\ d.confidence = IntV(conf)

\* C5: analyze_damage returns the fallback with confidence 0.3 when the
\* call fails, and for every reply that is not a record with damage_type,
\* severity and estimated cost it returns the fallback with confidence 0.5
\* and a copy of the reply of at most 500 characters.
C5_FallbackOnEveryBadReply ==
    (applied /\ inp.f = "analyze_damage") =>
      /\ inp.call = "fail" => IsFallback(out, 30)
      /\ (inp.call = "ok" /\ ~ParsesAsRecord(inp.text)) =>
           /\ IsFallback(out, 50)
           /\ out.raw_len >= 0
           /\ out.raw_len <= 500

\* C6: when process_claim finds no claim for the id, no customer for the
\* claim or an empty image list, it returns at once: the assessor, the
\* detector and the engine were not called, and the tables are as before.
C6_AbortLeavesClaim ==
    [][\A c \in ClaimIds :
         LET r == run[c]
             missing ==
                 \/ r.pc = "load_claim" /\ ~claims[c].exists
                      /\ run'[c].pc # "handler"
                 \/ r.pc = "load_customer"
                      /\ r.obj.customer_id \notin PolicyNumbers
                      /\ run'[c].pc # "handler"
                 \/ r.pc = "download" /\ r.obj.images = 0
         IN  (missing /\ run'[c] # r) =>
               /\ run'[c].pc = "done"
               /\ run'[c].outcome = "aborted"
               /\ ~run'[c].began
               /\ r.damage_result = NoDamage
               /\ r.fraud_result = NoFraud
               /\ r.decision = NoDecision
               /\ claims' = claims
               /\ writes' = writes]_vars

\* a run for a claim without images returned and the claim is still PENDING
C6_Witness ==
    \E c \in ClaimIds :
      /\ run[c].pc = "done"
      /\ run[c].outcome = "aborted"
      /\ claims[c].exists
      /\ claims[c].customer_id \in PolicyNumbers
      /\ claims[c].images = 0
      /\ claims[c].status = "pending"

C9_ScoreIsCappedSum ==
    (applied /\ inp.f = "calculate_fraud_score") =>
      LET m == CheckMetadataFraud(ExtractExif(inp.image), inp.incident_date)
          f == CheckClaimHistory(inp.recent_claims)
          t == CheckSuspiciousTiming(inp.incident_date, inp.policy_start_date,
                                     inp.policy_end_date)
      IN  /\ out.fraud_score = Min(100, m.score + f.score + t.score)
          /\ out.fraud_score >= 0
          /\ out.fraud_score <= 100

\* the three analyzers all scored: no EXIF data, four recent claims, an
\* incident near both policy dates
C9_Witness ==
    /\ applied
    /\ inp.f = "calculate_fraud_score"
    /\ out.details.metadata.score = 15
    /\ out.details.frequency.score = 25
    /\ out.details.timing.score = 25
    /\ out.fraud_score = 65

\* C10: every analyzer result has a score from 0 to its cap: 20 for
\* check_metadata_fraud, 25 for check_claim_history, 15 for
\* check_suspicious_timing.
C10_ScoresWithinCaps ==
    applied =>
      /\ inp.f = "check_metadata_fraud" => (out.score >= 0 /\ out.score <= 20)
      /\ inp.f = "check_claim_history" => (out.score >= 0 /\ out.score <= 25)
      /\ inp.f = "check_suspicious_timing" =>
           (out.score >= 0 /\ out.score <= 15)

\* totals the risk bands are compared on, beyond the cap of 100
MaxTotal == 130

\* C11: the risk level calculate_fraud_score returns is determined by the
\* fraud score it returns: low exactly when the score is at most 30, medium
\* exactly when it is above 30 and at most 70, high exactly when it is above
\* 70; the level is taken from the uncapped total, which the cap of 100
\* cannot move across a band.
C11_RiskLevelFromScore ==
    /\ (applied /\ inp.f = "calculate_fraud_score") =>
         /\ out.risk_level \in {"low", "medium", "high"}
         /\ out.risk_level = "low" <=> out.fraud_score <= 30
         /\ out.risk_level = "medium" <=>
              (out.fraud_score > 30 /\ out.fraud_score <= 70)
         /\ out.risk_level = "high" <=> out.fraud_score > 70
    /\ \A total_score \in 0 .. MaxTotal :
         LET fraud_score == Min(total_score, 100)
             risk_level == RiskLevel(total_score)
         IN  /\ risk_level = "low" <=> fraud_score <= 30
             /\ risk_level = "medium" <=> (fraud_score > 30 /\ fraud_score <= 70)
             /\ risk_level = "high" <=> fraud_score > 70

\* a score on the upper edge of the low band: no EXIF data and an incident
\* a day before the policy ends
C11_Witness ==
    /\ applied
    /\ inp.f = "calculate_fraud_score"
    /\ out.fraud_score = 30
    /\ out.risk_level = "low"

\* C12: check_claim_history returns score min(25, 8 * count) with
\* is_suspicious true when the count is above 2, and score 0, is_suspicious
\* false and no flag when the count is at most 2.
C12_FrequencyScore ==
    (applied /\ inp.f = "check_claim_history") =>
      LET n == inp.recent_claims
      IN  /\ out.recent_claims_count = n
          /\ n > 2 => /\ out.score = Min(25, n * 8)
                      /\ out.is_suspicious
          /\ n <= 2 => /\ out.score = 0
                       /\ ~out.is_suspicious
                       /\ out.flags = <<>>

\* three recent claims score 24 and are suspicious
C12_Witness ==
    /\ applied
    /\ inp.f = "check_claim_history"
    /\ inp.recent_claims = 3
    /\ out.score = 24
    /\ out.is_suspicious
    /\ out.flags # <<>>

C14_MetadataScore ==
    /\ (applied /\ inp.f = "check_metadata_fraud") =>
         LET photo == inp.metadata.datetime_original
             missing == ~inp.metadata.has_metadata
             differs == /\ photo.t = "dt"
                        /\ inp.claimed_date.t = "dt"
                        /\ Abs(photo.v - inp.claimed_date.v) > 7 * TicksPerDay
             edited == inp.metadata.software = "editor"
             score == (IF missing THEN 15 ELSE 0) + (IF differs THEN 10 ELSE 0)
                      + (IF edited THEN 5 ELSE 0)
         IN  /\ out.score = Min(20, score)
             /\ out.is_suspicious <=> out.score > 10
    /\ (applied /\ inp.f = "calculate_fraud_score"
          /\ inp.image.kind = "corrupt") =>
         /\ out.details.metadata.score = 15
         /\ out.details.metadata.is_suspicious

\* C15: every pipeline run terminates: a vision call or a history query
\* that never answers is cut off by a timeout and replaced by the
\* component's fallback, so a run that has started and not returned can
\* always take its next step.
C15_RunNeverWaitsForever ==
    \A c \in ClaimIds :
      run[c].pc \notin {"idle", "done"} => ENABLED Step(c)

\* the frequency result a run holds once calculate_fraud_score has returned
Scored(c) == run[c].pc \in {"decide", "commit", "report"}

\* C16: the count a run's frequency score is computed from is the number
\* of claims of the policy in the trailing 90 days as of the start of the
\* run; a claim submitted for the policy while the run is in progress
\* changes neither the count nor the score.
C16_HistoryAsOfStart ==
    [][\A c \in ClaimIds :
         (run[c].pc = "fraud" /\ run'[c].pc = "decide") =>
           LET frequency == run'[c].fraud_result.details.frequency
               at_start == run[c].history_at_start
           IN  /\ frequency.recent_claims_count = at_start
               /\ frequency.score = CheckClaimHistory(at_start).score]_vars

C18_FallbackNeverApproved ==
    (applied /\ inp.f = "analyze_damage"
       /\ out.damage_type = "Unable to determine") =>
      \A n \in DecisionScores,
         policy_limit \in DecisionLimits \cup {FallbackCost} :
        LET fraud == [fraud_score |-> n, risk_level |-> RiskLevel(n),
                      flags |-> <<>>]
            decision == MakeDecision(out, fraud, policy_limit)
        IN  /\ ~decision.raised
            /\ decision.decision # "approved"
            /\ decision.approved_amount = NoneV

\* a parse fallback with no fraud signal and a limit above its cost is sent
\* to review for its confidence
C18_Witness ==
    /\ applied
    /\ inp.f = "analyze_damage"
    /\ inp.call = "ok"
    /\ IsFallback(out, 50)
    /\ LET fraud == [fraud_score |-> 0, risk_level |-> "low", flags |-> <<>>]
           decision == MakeDecision(out, fraud, 500000)
       IN  /\ decision.decision = "under_review"
           /\ decision.reason.text = "Image quality requires manual review"

\* C19: in every state every persisted claim has an approved amount exactly
\* when its status is APPROVED, and then the approved amount is the
\* estimated amount, at most the policy limit of its customer, with a fraud
\* score of at most 30; also after a run that ended in the error handler.
C19_ApprovedAmountIffApproved ==
    \A c \in ClaimIds :
      claims[c].exists =>
        /\ claims[c].approved_amount # NoneV <=> claims[c].status = "approved"
        /\ claims[c].status = "approved" =>
             /\ IsInt(claims[c].approved_amount)
             /\ claims[c].approved_amount = claims[c].estimated_amount
             /\ claims[c].customer_id \in PolicyNumbers
             /\ claims[c].approved_amount.v
                  <= Customer(claims[c].customer_id).policy_limit
             /\ claims[c].fraud_score <= 30

\* one claim was approved with its estimated amount, and another one, whose
\* run failed while committing its decision, is under review without an
\* approved amount
C19_Witness ==
    \E c, d \in ClaimIds :
      /\ run[c].pc = "done"
      /\ claims[c].status = "approved"
      /\ IsInt(claims[c].approved_amount)
      /\ claims[c].approved_amount.v > 0
      /\ run[d].pc = "done"
      /\ run[d].outcome = "error"
      /\ run[d].exc = "commit failed"
      /\ claims[d].status = "under_review"
      /\ claims[d].approved_amount = NoneV

\* the claims of c's policy that were in the table when c was submitted
PriorClaims(c) ==
    Cardinality({d \in ClaimIds :
                   /\ d < c
                   /\ claims[d].exists
                   /\ claims[d].policy_number = claims[c].policy_number})
    + Cardinality({h \in EarlierClaims :
                     h.policy_number = claims[c].policy_number})

\* C20: the claim a run processes is committed before the run is scheduled
\* and is counted by the run's history query: the count is at least 1 plus
\* the claims of the policy submitted before it, so the third claim of a
\* policy (two before it) is suspicious with a frequency score of 24.
C20_OwnClaimCounted ==
    \A c \in ClaimIds :
      (Scored(c) /\ scheduled[c] = 1) =>
        LET frequency == run[c].fraud_result.details.frequency
        IN  /\ frequency.recent_claims_count >= 1
            /\ frequency.recent_claims_count >= 1 + PriorClaims(c)
            /\ PriorClaims(c) >= 2 =>
                 /\ frequency.is_suspicious
                 /\ frequency.score >= 24
            /\ (PriorClaims(c) = 2 /\ frequency.recent_claims_count = 3) =>
                 frequency.score = 24

\* the run of a policy's third claim counted three claims and scored 24
C20_Witness ==
    \E c \in ClaimIds :
      /\ Scored(c)
      /\ scheduled[c] = 1
      /\ PriorClaims(c) = 2
      /\ run[c].fraud_result.details.frequency.recent_claims_count = 3
      /\ run[c].fraud_result.details.frequency.score = 24
      /\ run[c].fraud_result.details.frequency.is_suspicious

\* the row of claim c as submit_claim committed it
AsSubmitted(c) ==
    Row(TRUE, claims[c].customer_id, claims[c].incident_date, claims[c].images,
        claims[c].created_at)

\* the handler's update of claim c was persisted
ErrorUpdated(c) ==
    /\ writes[c] # <<>>
    /\ {"status", "decision_reason"} \subseteq writes[c][Len(writes[c])]
    /\ claims[c].status = "under_review"
    /\ claims[c].decision_reason = ErrorReason(run[c].exc)

====
